---- MODULE Spec2Model ----
(***************************************************************************)
(* A model of the BioSimSpace workshop material: the workflow nodes        *)
(* (nodes/minimisation.py as described in the introduction notebook,       *)
(* nodes/equilibration.ipynb) and the interactive molecular dynamics       *)
(* session, together with the external MD process they launch.             *)
(*                                                                         *)
(* Times are in hundredths of a nanosecond (0.2 ns = 20, 10 ns = 1000),    *)
(* temperatures in kelvin.  File names and command-line values are         *)
(* sequences of one-character strings.                                     *)
(***************************************************************************)
EXTENDS Integers, Sequences, FiniteSets, TLC

VARIABLES
    script,        \* which notebook/script is executing
    mode,          \* "shell" (python script) or "notebook" (Jupyter)
    flag,          \* reserved command-line flag: "none", "help", "output"
    form,          \* how the files were passed: "comma", "spaced", "glob", "upload", "absent"
    fileSet,       \* the files the caller means to pass
    supplied,      \* names of the inputs the caller supplied
    argv,          \* the supplied raw values, by input name
    pc,            \* position in the script
    gui,           \* the notebook controls are shown
    system,        \* the molecular system read, or NoSystem
    protocol,      \* the protocol constructed, or NoProtocol
    autostart,     \* the autostart keyword of BSS.MD.run
    proc,          \* process state: "none", "created", "running", "finished", "killed"
    starts,        \* number of process.start() calls
    frames,        \* trajectory frames fully written by the process
    trajWriting,   \* the process is in the middle of writing a frame
    trajResult,    \* outcome of the latest process.getTrajectory()
    trajFrames,    \* frames seen by the latest successful getTrajectory()
    args,          \* the process's command-line arguments (ordered dictionary)
    config,        \* the process's configuration strings
    outputs,       \* node outputs set with setOutput
    filesWritten,  \* output files written to the working directory
    trace,         \* operations the script has performed
    argOp,         \* the latest operation on the arguments and what it was given
    records,       \* thermodynamic records the process has written so far
    polled,        \* the time series held by a plot cell that is executing
    plot           \* the two series given to the latest BSS.Notebook.plot

vars == <<script, mode, flag, form, fileSet, supplied, argv, pc, gui, system,
          protocol, autostart, proc, starts, frames, trajWriting, trajResult,
          trajFrames, args, config, outputs, filesWritten, trace, argOp,
          records, polled, plot>>

nodeVars == <<script, mode, flag, form, fileSet, supplied, argv>>
procVars == <<proc, starts, frames, trajWriting>>
plotVars == <<records, polled, plot>>

----------------------------------------------------------------------------
(* Bounds of the model. *)

MaxFiles == 2      \* files passed to a node
MaxFrames == 2     \* trajectory frames a process writes
MaxStarts == 2     \* explicit start() calls in a session
MaxConfig == 3     \* configuration strings of a process
MaxRecords == 2    \* thermodynamic records a process writes

----------------------------------------------------------------------------
(* Declared input requirements. *)

DefaultSteps == 10000
ReducedSteps == 1000
MinRuntime == 0
MaxRuntime == 1000
DefaultRuntime == 20
ShortRuntime == 5
MinTemperature == 0
MaxTemperature == 1000
DefaultTemperatureStart == 0
DefaultTemperatureEnd == 300

NodeScripts == {"minimisation", "equilibration"}

\* node.addInput: the names declared by each node.
Inputs(s) ==
    IF s = "equilibration"
    THEN {"files", "runtime", "temperature_start", "temperature_end",
          "restrain_backbone", "residue"}
    ELSE IF s = "minimisation" THEN {"files", "steps"}
    ELSE {}

\* Inputs declared with a default= keyword are optional.
Optional(s) ==
    IF s = "equilibration"
    THEN {"runtime", "temperature_start", "temperature_end", "restrain_backbone"}
    ELSE IF s = "minimisation" THEN {"steps"}
    ELSE {}

\* The default= keyword of each optional input.
Default(n) ==
    CASE n = "steps" -> DefaultSteps
      [] n = "runtime" -> DefaultRuntime
      [] n = "temperature_start" -> DefaultTemperatureStart
      [] n = "temperature_end" -> DefaultTemperatureEnd
      [] n = "restrain_backbone" -> FALSE

\* Inputs declared with minimum= and maximum= keywords.
Bounded == {"runtime", "temperature_start", "temperature_end"}

Minimum(n) == IF n = "runtime" THEN MinRuntime ELSE MinTemperature

Maximum(n) == IF n = "runtime" THEN MaxRuntime ELSE MaxTemperature

\* node.addOutput: the names declared by each node.
Outputs(s) ==
    IF s = "equilibration" THEN {"equilibrated", "rmsd"}
    ELSE IF s = "minimisation" THEN {"minimised"}
    ELSE {}

----------------------------------------------------------------------------
(* File names and the three ways of passing them on the command line. *)

FileNames == << <<"c">>, <<"t">>, <<"p", "d">> >>

FileNameSet == {FileNames[i] : i \in DOMAIN FileNames}

\* The format a file is recognised as when it is read.
FormatOf(f) ==
    IF f = <<"c">> THEN "RST7" ELSE IF f = <<"t">> THEN "PRM7" ELSE "PDB"

\* All orderings of a set of names.
Perms(S) ==
    {q \in [1..Cardinality(S) -> S] : \A i, j \in DOMAIN q : i # j => q[i] # q[j]}

\* The names of S in directory order, as the shell expands input/*.
RECURSIVE Sorted(_, _)
Sorted(S, i) ==
    IF i > Len(FileNames) THEN <<>>
    ELSE (IF FileNames[i] \in S THEN <<FileNames[i]>> ELSE <<>>) \o Sorted(S, i + 1)

\* --files="input/ala.crd, input/ala.top": one value, names joined by ", ".
RECURSIVE CommaJoin(_)
CommaJoin(q) ==
    IF Len(q) = 0 THEN <<>>
    ELSE IF Len(q) = 1 THEN q[1]
    ELSE q[1] \o <<",", " ">> \o CommaJoin(Tail(q))

\* The command-line values that pass the names q in the given form.
Tokens(f, q) == IF f = "comma" THEN <<CommaJoin(q)>> ELSE q

\* Remove leading and trailing blanks.
RECURSIVE Strip(_)
Strip(s) ==
    IF Len(s) = 0 THEN s
    ELSE IF Head(s) = " " THEN Strip(Tail(s))
    ELSE IF s[Len(s)] = " " THEN Strip(SubSeq(s, 1, Len(s) - 1))
    ELSE s

\* Split a value at its commas.
RECURSIVE SplitComma(_, _)
SplitComma(s, cur) ==
    IF Len(s) = 0 THEN <<cur>>
    ELSE IF Head(s) = "," THEN <<cur>> \o SplitComma(Tail(s), <<>>)
    ELSE SplitComma(Tail(s), Append(cur, Head(s)))

\* Faulty variant of Pieces: the blank after a comma is kept in the name.
NoStripPieces(tok) ==
    LET parts == SplitComma(tok, <<>>) IN {parts[i] : i \in DOMAIN parts}

\* The file names carried by one command-line value.
Pieces(tok) ==
    LET parts == SplitComma(tok, <<>>) IN {Strip(parts[i]) : i \in DOMAIN parts}

\* The set of files a FileSet input holds for the given values.
ParseFiles(toks) == UNION {Pieces(toks[i]) : i \in DOMAIN toks}

----------------------------------------------------------------------------
(* Values. *)

NoSystem == [files |-> {}, format |-> {}]

NoProtocol ==
    [kind |-> "none", steps |-> 0, runtime |-> 0, temperature_start |-> 0,
     temperature_end |-> 0, restrain_backbone |-> FALSE]

NoArgv ==
    [files |-> <<>>, steps |-> 0, runtime |-> 0, temperature_start |-> 0,
     temperature_end |-> 0, restrain_backbone |-> FALSE, residue |-> <<>>]

\* BSS.IO.readMolecules: the system read from a set of files.
readMolecules(files) == [files |-> files, format |-> {FormatOf(f) : f \in files}]

\* Faulty variant of fileFormat: the AMBER formats whatever was read.
AlwaysAmber(sys) == {"PRM7", "RST7"}

\* system.fileFormat(): the format recorded when the system was read.
fileFormat(sys) == sys.format

\* BSS.Protocol.Minimisation(steps=...)
Minimisation(steps) == [NoProtocol EXCEPT !.kind = "minimisation", !.steps = steps]

\* BSS.Protocol.Equilibration(runtime=..., temperature_start=...,
\* temperature_end=..., restrain_backbone=...)
Equilibration(runtime, temperature_start, temperature_end, restrain_backbone) ==
    [NoProtocol EXCEPT !.kind = "equilibration", !.runtime = runtime,
                       !.temperature_start = temperature_start,
                       !.temperature_end = temperature_end,
                       !.restrain_backbone = restrain_backbone]

\* str.upper() on the characters a residue name uses.
UpperChar(c) ==
    IF c = "a" THEN "A" ELSE IF c = "l" THEN "L" ELSE IF c = "g" THEN "G"
    ELSE IF c = "y" THEN "Y" ELSE c

upper(s) == [i \in DOMAIN s |-> UpperChar(s[i])]

\* The residue names of the molecules in the workshop's input system.
ResidueNames == {<<"A", "L", "A">>}

\* No operation on the arguments yet.
NoArgOp == [op |-> "none", arg |-> "", value |-> "", changed |-> FALSE]

\* No plot made yet.
NoPlot == [made |-> FALSE, quantity |-> "none", x |-> <<>>, y |-> <<>>]

\* The arguments a new process starts with, in order.
DefaultArgs ==
    << [arg |-> "-O", value |-> "True"], [arg |-> "-i", value |-> "amber.cfg"] >>

\* The configuration strings a new process starts with.
DefaultConfig == <<"default config parameter string">>

\* my_config in the notebook's setConfig / addToConfig examples.
MyConfig == <<"some config parameter string", "another config parameter string">>

----------------------------------------------------------------------------
(* Node inputs: node.getInput and the validation behind it. *)

\* Faulty variant of getInput: a supplied optional value is replaced by the default.
ReplacedByDefault(n) ==
    IF n \in Optional(script) THEN Default(n)
    ELSE IF n = "files" THEN ParseFiles(argv.files) ELSE argv[n]

\* The value asked of the caller or, for an omitted optional input, the default.
getInput(n) ==
    IF n \in supplied
    THEN (IF n = "files" THEN ParseFiles(argv.files) ELSE argv[n])
    ELSE Default(n)

\* Faulty variant of InRange: minimum and maximum are never checked.
UncheckedRange(n, v) == TRUE

\* A value lies within the declared minimum and maximum.
InRange(n, v) == n \in Bounded => (Minimum(n) <= v /\ v <= Maximum(n))

\* Faulty variant of OmittedOk: defaults are not applied in a notebook.
NotebookNeedsAll(n) == n \in Optional(script) /\ mode # "notebook"

\* An omitted input is acceptable when it was declared with a default.
OmittedOk(n) == n \in Optional(script)

\* One declared input passes validation.
InputOk(n) ==
    IF n \in supplied
    THEN (IF n = "files" THEN ParseFiles(argv.files) # {} ELSE InRange(n, argv[n]))
    ELSE OmittedOk(n)

\* Faulty variant of Validated: only the input asked for is validated.
LazyValidated(n) == {n}

\* The inputs validated by a call of getInput: the command line (or the
\* notebook controls) is parsed as a whole, so every declared input is.
Validated(n) == Inputs(script)

\* getInput(n) raises instead of returning a value.
GetInputFails(n) == \E m \in Validated(n) : ~InputOk(m)

\* Faulty variant of Reserved: --output is not recognised.
OnlyHelpReserved(f) == f = "help"

\* --help and --output are answered when the command line is parsed.
Reserved(f) == f \in {"help", "output"}

----------------------------------------------------------------------------
(* Initial states: a node invoked with some inputs, or the interactive     *)
(* notebook opened.                                                        *)

\* The non-empty sets of at most MaxFiles file names.
FileSets == {S \in SUBSET FileNameSet : S # {} /\ Cardinality(S) <= MaxFiles}

\* Values a caller may supply for each bounded or optional input.
RuntimeValues == {MinRuntime - 1, ShortRuntime, MaxRuntime + 1}
TemperatureStartValues == {MinTemperature - 1, MaxTemperature, MaxTemperature + 1}
TemperatureEndValues == {MinTemperature - 1, MinTemperature, MaxTemperature + 1}
ResidueValues == {<<"a", "l", "a">>}

\* The state before the first statement of any script.
Fresh ==
    /\ gui = FALSE
    /\ system = NoSystem
    /\ protocol = NoProtocol
    /\ autostart = TRUE
    /\ proc = "none"
    /\ starts = 0
    /\ frames = 0
    /\ trajWriting = FALSE
    /\ trajResult = "none"
    /\ trajFrames = 0
    /\ args = <<>>
    /\ config = <<>>
    /\ outputs = {}
    /\ filesWritten = {}
    /\ trace = <<>>
    /\ argOp = NoArgOp
    /\ records = <<>>
    /\ polled = <<>>
    /\ plot = NoPlot

\* The files input: omitted, or a set of files passed in one of the forms
\* the mode allows.
InitFiles ==
    \/ /\ form = "absent"
       /\ fileSet = {}
    \/ /\ fileSet \in FileSets
       /\ form \in (IF mode = "shell" THEN {"comma", "spaced", "glob"} ELSE {"upload"})

\* The raw values of the files input for the chosen form.
FileTokens ==
    IF form = "absent" THEN {<<>>}
    ELSE IF form \in {"glob", "upload"} THEN {Sorted(fileSet, 1)}
    ELSE {Tokens(form, q) : q \in Perms(fileSet)}

InitMinimisation ==
    /\ script = "minimisation"
    /\ mode = "shell"
    /\ flag \in {"none", "help", "output"}
    /\ InitFiles
    /\ \E toks \in FileTokens, st \in SUBSET {"steps"} :
          /\ supplied = (IF form = "absent" THEN {} ELSE {"files"}) \cup st
          /\ argv = [NoArgv EXCEPT !.files = toks,
                                   !.steps = IF "steps" \in st THEN ReducedSteps ELSE 0]
    /\ pc = "controls"
    /\ Fresh

InitEquilibration ==
    /\ script = "equilibration"
    /\ mode \in {"shell", "notebook"}
    /\ flag \in (IF mode = "shell" THEN {"none", "help", "output"} ELSE {"none"})
    /\ InitFiles
    /\ \E toks \in FileTokens,
          opt \in SUBSET {"runtime", "temperature_start", "temperature_end",
                          "restrain_backbone", "residue"},
          rt \in RuntimeValues, ts \in TemperatureStartValues,
          te \in TemperatureEndValues, rb \in BOOLEAN, res \in ResidueValues :
          /\ supplied = (IF form = "absent" THEN {} ELSE {"files"}) \cup opt
          /\ argv = [files |-> toks,
                     steps |-> 0,
                     runtime |-> IF "runtime" \in opt THEN rt ELSE 0,
                     temperature_start |-> IF "temperature_start" \in opt THEN ts ELSE 0,
                     temperature_end |-> IF "temperature_end" \in opt THEN te ELSE 0,
                     restrain_backbone |-> IF "restrain_backbone" \in opt THEN rb ELSE FALSE,
                     residue |-> IF "residue" \in opt THEN res ELSE <<>>]
    /\ pc = "controls"
    /\ Fresh

InitInteractive ==
    /\ script = "interactive"
    /\ mode = "notebook"
    /\ flag = "none"
    /\ form = "absent"
    /\ fileSet = {<<"c">>, <<"t">>}
    /\ supplied = {}
    /\ argv = NoArgv
    /\ pc = "load"
    /\ Fresh

Init == InitMinimisation \/ InitEquilibration \/ InitInteractive

----------------------------------------------------------------------------
(* The process handle returned by BSS.MD.run and the external process. *)

\* Faulty variant of RunState: the autostart keyword is ignored.
AlwaysStarted(a) == "running"

\* The state of a process returned by BSS.MD.run(system, protocol,
\* autostart=a); with the keyword omitted a is True.
RunState(a) == IF a THEN "running" ELSE "created"

\* Faulty variant of SystemAvailable: block=True does not wait.
NonBlocking(block) == proc \in {"running", "finished"}

\* process.getSystem(block=...) returns: with block=True only once the
\* process has finished.
SystemAvailable(block) ==
    IF block THEN proc = "finished" ELSE proc \in {"running", "finished"}

\* Faulty variant of TrajectoryOutcomes: a read may fail with no write in progress.
AlwaysMayFail == {"ok", "error"}

\* The outcomes of process.getTrajectory(): reading the trajectory file
\* while the process is writing it may fail.
TrajectoryOutcomes == IF trajWriting THEN {"ok", "error"} ELSE {"ok"}

\* The keys of an ordered dictionary of arguments.
Keys(d) == {d[i].arg : i \in DOMAIN d}

\* Faulty variant of setArg: the argument is always appended.
AppendArg(d, a, v) == Append(d, [arg |-> a, value |-> v])

\* process.setArg(a, v): overwrite the value of a in place, or append a.
setArg(d, a, v) ==
    IF a \in Keys(d)
    THEN [i \in DOMAIN d |-> IF d[i].arg = a THEN [arg |-> a, value |-> v] ELSE d[i]]
    ELSE Append(d, [arg |-> a, value |-> v])

\* The entries of d other than a, in order.
RECURSIVE Without(_, _)
Without(d, a) ==
    IF Len(d) = 0 THEN <<>>
    ELSE (IF Head(d).arg = a THEN <<>> ELSE <<Head(d)>>) \o Without(Tail(d), a)

\* process.setArgs(new): overwrite all arguments with a new dictionary.
setArgs(d, new) == new

\* process.addArgs(more): append additional arguments, in order.
RECURSIVE addArgs(_, _)
addArgs(d, more) ==
    IF Len(more) = 0 THEN d
    ELSE addArgs(setArg(d, Head(more).arg, Head(more).value), Tail(more))

\* process.insertArgs(a, v, index): insert an argument at a specific index.
insertArgs(d, a, v, index) ==
    LET rest == Without(d, a)
        at == IF index > Len(rest) THEN Len(rest) ELSE index
    IN SubSeq(rest, 1, at) \o <<[arg |-> a, value |-> v]>>
          \o SubSeq(rest, at + 1, Len(rest))

\* process.deleteArg(a): delete an argument from the dictionary.
deleteArg(d, a) == Without(d, a)

\* process.clearArgs(): clear all of the arguments.
clearArgs(d) == <<>>

\* Faulty variant of resetArgs: the defaults are written over the current
\* dictionary, so added arguments survive.
MergeDefaults(d) == addArgs(d, DefaultArgs)

\* process.resetArgs(): reset the arguments to their default values.
resetArgs(d) == DefaultArgs

\* process.getArgString(): a flag set to True is given by its name, a flag
\* set to False is left out, any other argument is given with its value.
RECURSIVE getArgString(_)
getArgString(d) ==
    IF Len(d) = 0 THEN <<>>
    ELSE (IF Head(d).value = "True" THEN <<Head(d).arg>>
          ELSE IF Head(d).value = "False" THEN <<>>
          ELSE <<Head(d).arg, Head(d).value>>) \o getArgString(Tail(d))

\* Faulty variant of kill: the process is left as it was.
IgnoredKill(p) == p

\* The state of a process after process.kill().
kill(p) == "killed"

\* The record the process writes after n earlier ones: the time advances and
\* the system is heated.
NextRecord(n) == [time |-> n + 1, temperature |-> (n + 1) * 10, energy |-> 0 - (n + 1)]

\* Faulty variant of WriteRecord: only the latest record is kept.
KeepLatest(recs) == <<NextRecord(Len(recs))>>

\* The process's output after it has written one more record.
WriteRecord(recs) == Append(recs, NextRecord(Len(recs)))

\* process.getTime(time_series=True)
getTime(recs) == [i \in DOMAIN recs |-> recs[i].time]

\* process.getTemperature(time_series=True)
getTemperature(recs) == [i \in DOMAIN recs |-> recs[i].temperature]

\* process.getTotalEnergy(time_series=True)
getTotalEnergy(recs) == [i \in DOMAIN recs |-> recs[i].energy]

\* The external executable writes a thermodynamic record.
ProcRecord ==
    /\ proc = "running"
    /\ Len(records) < MaxRecords
    /\ records' = WriteRecord(records)
    /\ UNCHANGED <<nodeVars, pc, gui, system, protocol, autostart, procVars,
                   trajResult, trajFrames, args, config, outputs, filesWritten,
                   trace, argOp, polled, plot>>

\* The external executable starts writing a trajectory frame.
ProcWriteBegin ==
    /\ proc = "running"
    /\ ~trajWriting
    /\ frames < MaxFrames
    /\ trajWriting' = TRUE
    /\ UNCHANGED <<nodeVars, pc, gui, system, protocol, autostart, proc, starts,
                   frames, trajResult, trajFrames, args, config, outputs,
                   filesWritten, trace>>
    /\ UNCHANGED argOp
    /\ UNCHANGED plotVars

\* The external executable completes the frame it was writing.
ProcWriteEnd ==
    /\ proc = "running"
    /\ trajWriting
    /\ trajWriting' = FALSE
    /\ frames' = frames + 1
    /\ UNCHANGED <<nodeVars, pc, gui, system, protocol, autostart, proc, starts,
                   trajResult, trajFrames, args, config, outputs, filesWritten,
                   trace>>
    /\ UNCHANGED argOp
    /\ UNCHANGED plotVars

\* The external executable reaches the end of the protocol and exits.
ProcFinish ==
    /\ proc = "running"
    /\ ~trajWriting
    /\ frames = MaxFrames
    /\ proc' = "finished"
    /\ UNCHANGED <<nodeVars, pc, gui, system, protocol, autostart, starts, frames,
                   trajWriting, trajResult, trajFrames, args, config, outputs,
                   filesWritten, trace>>
    /\ UNCHANGED argOp
    /\ UNCHANGED plotVars

----------------------------------------------------------------------------
(* The node scripts, one action per cell. *)

\* node.showControls(): shows the GUI in a notebook, nothing in a shell.
ShowControls ==
    /\ script \in NodeScripts
    /\ pc = "controls"
    /\ gui' = (mode = "notebook")
    /\ pc' = "read"
    /\ UNCHANGED <<nodeVars, system, protocol, autostart, procVars, trajResult,
                   trajFrames, args, config, outputs, filesWritten, trace>>
    /\ UNCHANGED argOp
    /\ UNCHANGED plotVars

\* system = BSS.IO.readMolecules(node.getInput("files"))
ReadMolecules ==
    /\ script \in NodeScripts
    /\ pc = "read"
    /\ IF Reserved(flag)
       THEN /\ pc' = "reported"
            /\ UNCHANGED <<system, trace>>
       ELSE IF GetInputFails("files")
       THEN /\ pc' = "error"
            /\ UNCHANGED <<system, trace>>
       ELSE /\ system' = readMolecules(getInput("files"))
            /\ pc' = "protocol"
            /\ trace' = Append(trace, "read")
    /\ UNCHANGED <<nodeVars, gui, protocol, autostart, procVars, trajResult,
                   trajFrames, args, config, outputs, filesWritten>>
    /\ UNCHANGED argOp
    /\ UNCHANGED plotVars

\* protocol = BSS.Protocol.Equilibration(runtime=node.getInput("runtime"), ...)
NodeProtocol ==
    IF script = "equilibration"
    THEN Equilibration(getInput("runtime"), getInput("temperature_start"),
                       getInput("temperature_end"), getInput("restrain_backbone"))
    ELSE Minimisation(getInput("steps"))

\* The inputs the protocol cell reads.
ProtocolInputs ==
    IF script = "equilibration"
    THEN {"runtime", "temperature_start", "temperature_end", "restrain_backbone"}
    ELSE {"steps"}

BuildProtocol ==
    /\ script \in NodeScripts
    /\ pc = "protocol"
    /\ IF \E n \in ProtocolInputs : GetInputFails(n)
       THEN /\ pc' = "error"
            /\ UNCHANGED <<protocol, trace>>
       ELSE /\ protocol' = NodeProtocol
            /\ pc' = "run"
            /\ trace' = Append(trace, "protocol")
    /\ UNCHANGED <<nodeVars, gui, system, autostart, procVars, trajResult,
                   trajFrames, args, config, outputs, filesWritten>>
    /\ UNCHANGED argOp
    /\ UNCHANGED plotVars

\* process = BSS.MD.run(system, protocol)
RunProcess ==
    /\ script \in NodeScripts
    /\ pc = "run"
    /\ autostart' = TRUE
    /\ proc' = RunState(TRUE)
    /\ args' = DefaultArgs
    /\ argOp' = [NoArgOp EXCEPT !.op = "create"]
    /\ config' = DefaultConfig
    /\ pc' = "save"
    /\ trace' = Append(trace, "run")
    /\ UNCHANGED <<nodeVars, gui, system, protocol, starts, frames, trajWriting,
                   trajResult, trajFrames, outputs, filesWritten>>
    /\ UNCHANGED plotVars

\* The name under which a node saves its molecular system.
SavedName == IF script = "minimisation" THEN "minimised" ELSE "equilibrated"

\* node.setOutput("equilibrated", BSS.IO.saveMolecules("equilibrated",
\*     process.getSystem(block=True), system.fileFormat()))
SaveSystem ==
    /\ script \in NodeScripts
    /\ pc = "save"
    /\ SystemAvailable(TRUE)
    /\ filesWritten' = filesWritten \cup {[name |-> SavedName, format |-> fileFormat(system)]}
    /\ outputs' = outputs \cup {SavedName}
    /\ pc' = IF script = "equilibration" THEN "rmsd" ELSE "validate"
    /\ trace' = Append(trace, "save")
    /\ UNCHANGED <<nodeVars, gui, system, protocol, autostart, procVars,
                   trajResult, trajFrames, args, config>>
    /\ UNCHANGED argOp
    /\ UNCHANGED plotVars

\* Faulty variant of SetRmsdOutput: the rmsd output is never set.
ForgottenOutput(outs) == outs

\* node.setOutput("rmsd", "rmsd.txt")
SetRmsdOutput(outs) == outs \cup {"rmsd"}

\* rmsd = process.getTrajectory().RMSD(frame=0, molecule=
\*     system.getMolWithResName(node.getInput("residue").upper()));
\* write rmsd.txt; node.setOutput("rmsd", "rmsd.txt")
WriteRMSD ==
    /\ script = "equilibration"
    /\ pc = "rmsd"
    /\ \E r \in TrajectoryOutcomes :
          /\ trajResult' = r
          /\ IF r = "error" \/ GetInputFails("residue")
                \/ upper(getInput("residue")) \notin ResidueNames
             THEN /\ pc' = "error"
                  /\ trajFrames' = IF r = "ok" THEN frames ELSE trajFrames
                  /\ UNCHANGED <<outputs, filesWritten, trace>>
             ELSE /\ trajFrames' = frames
                  /\ filesWritten' = filesWritten \cup
                                       {[name |-> "rmsd.txt", format |-> {"TXT"}]}
                  /\ outputs' = SetRmsdOutput(outputs)
                  /\ pc' = "validate"
                  /\ trace' = Append(trace, "rmsd")
    /\ UNCHANGED <<nodeVars, gui, system, protocol, autostart, procVars, args,
                   config>>
    /\ UNCHANGED argOp
    /\ UNCHANGED plotVars

\* node.validate() succeeds when every declared output has been set.
OutputsOk(outs) == Outputs(script) \subseteq outs

ValidateNode ==
    /\ script \in NodeScripts
    /\ pc = "validate"
    /\ pc' = IF OutputsOk(outputs) THEN "validated" ELSE "error"
    /\ UNCHANGED <<nodeVars, gui, system, protocol, autostart, procVars,
                   trajResult, trajFrames, args, config, outputs, filesWritten,
                   trace>>
    /\ UNCHANGED argOp
    /\ UNCHANGED plotVars

----------------------------------------------------------------------------
(* The interactive molecular dynamics notebook. *)

\* system = BSS.IO.readMolecules(["input/ala.crd", "input/ala.top"])
ILoad ==
    /\ script = "interactive"
    /\ pc = "load"
    /\ system' = readMolecules(fileSet)
    /\ pc' = "define"
    /\ UNCHANGED <<nodeVars, gui, protocol, autostart, procVars, trajResult,
                   trajFrames, args, config, outputs, filesWritten, trace>>
    /\ UNCHANGED argOp
    /\ UNCHANGED plotVars

\* protocol = BSS.Protocol.Equilibration(runtime=0.05 ns, temperature_start=0 K,
\*                                       temperature_end=300 K, restrain_backbone=True)
IDefine ==
    /\ script = "interactive"
    /\ pc = "define"
    /\ protocol' = Equilibration(ShortRuntime, DefaultTemperatureStart,
                                 DefaultTemperatureEnd, TRUE)
    /\ pc' = "create"
    /\ UNCHANGED <<nodeVars, gui, system, autostart, procVars, trajResult,
                   trajFrames, args, config, outputs, filesWritten, trace>>
    /\ UNCHANGED argOp
    /\ UNCHANGED plotVars

\* process = BSS.MD.run(system, protocol, autostart=False), or with the
\* autostart keyword omitted.
ICreate ==
    /\ script = "interactive"
    /\ pc = "create"
    /\ \E a \in BOOLEAN :
          /\ autostart' = a
          /\ proc' = RunState(a)
    /\ args' = DefaultArgs
    /\ argOp' = [NoArgOp EXCEPT !.op = "create"]
    /\ config' = DefaultConfig
    /\ pc' = "session"
    /\ UNCHANGED <<nodeVars, gui, system, protocol, starts, frames, trajWriting,
                   trajResult, trajFrames, outputs, filesWritten, trace>>
    /\ UNCHANGED plotVars

\* process.setArg(arg, value)
ISetArg ==
    /\ script = "interactive"
    /\ pc = "session"
    /\ \E a \in {"-O", "-x"}, v \in {"True", "False"} :
          /\ args' = setArg(args, a, v)
          /\ argOp' = [op |-> "setArg", arg |-> a, value |-> v,
                       changed |-> (args' # args)]
    /\ UNCHANGED <<nodeVars, pc, gui, system, protocol, autostart, procVars,
                   trajResult, trajFrames, config, outputs, filesWritten, trace>>
    /\ UNCHANGED plotVars

\* process.resetArgs()
IResetArgs ==
    /\ script = "interactive"
    /\ pc = "session"
    /\ args' = resetArgs(args)
    /\ argOp' = [NoArgOp EXCEPT !.op = "resetArgs", !.changed = (args' # args)]
    /\ UNCHANGED <<nodeVars, pc, gui, system, protocol, autostart, procVars,
                   trajResult, trajFrames, config, outputs, filesWritten, trace>>
    /\ UNCHANGED plotVars

\* my_args: a dictionary of additional arguments.
MyArgs == << [arg |-> "-x", value |-> "True"], [arg |-> "-O", value |-> "False"] >>

\* process.setArgs(my_args)
ISetArgs ==
    /\ script = "interactive"
    /\ pc = "session"
    /\ \E n \in 1..Len(MyArgs) :
          /\ args' = setArgs(args, SubSeq(MyArgs, 1, n))
          /\ argOp' = [NoArgOp EXCEPT !.op = "setArgs", !.changed = (args' # args)]
    /\ UNCHANGED <<nodeVars, pc, gui, system, protocol, autostart, procVars,
                   trajResult, trajFrames, config, outputs, filesWritten, trace>>
    /\ UNCHANGED plotVars

\* process.addArgs(my_args)
IAddArgs ==
    /\ script = "interactive"
    /\ pc = "session"
    /\ \E n \in 1..Len(MyArgs) :
          /\ args' = addArgs(args, SubSeq(MyArgs, 1, n))
          /\ argOp' = [NoArgOp EXCEPT !.op = "addArgs", !.changed = (args' # args)]
    /\ UNCHANGED <<nodeVars, pc, gui, system, protocol, autostart, procVars,
                   trajResult, trajFrames, config, outputs, filesWritten, trace>>
    /\ UNCHANGED plotVars

\* process.insertArgs(arg, value, index)
IInsertArgs ==
    /\ script = "interactive"
    /\ pc = "session"
    /\ \E i \in 0..Len(args) :
          /\ args' = insertArgs(args, "-x", "True", i)
          /\ argOp' = [NoArgOp EXCEPT !.op = "insertArgs", !.changed = (args' # args)]
    /\ UNCHANGED <<nodeVars, pc, gui, system, protocol, autostart, procVars,
                   trajResult, trajFrames, config, outputs, filesWritten, trace>>
    /\ UNCHANGED plotVars

\* process.deleteArg(arg)
IDeleteArg ==
    /\ script = "interactive"
    /\ pc = "session"
    /\ \E a \in Keys(args) :
          /\ args' = deleteArg(args, a)
          /\ argOp' = [NoArgOp EXCEPT !.op = "deleteArg", !.changed = (args' # args)]
    /\ UNCHANGED <<nodeVars, pc, gui, system, protocol, autostart, procVars,
                   trajResult, trajFrames, config, outputs, filesWritten, trace>>
    /\ UNCHANGED plotVars

\* process.clearArgs()
IClearArgs ==
    /\ script = "interactive"
    /\ pc = "session"
    /\ args' = clearArgs(args)
    /\ argOp' = [NoArgOp EXCEPT !.op = "clearArgs", !.changed = (args' # args)]
    /\ UNCHANGED <<nodeVars, pc, gui, system, protocol, autostart, procVars,
                   trajResult, trajFrames, config, outputs, filesWritten, trace>>
    /\ UNCHANGED plotVars

\* The plot cell, first getter:
\* BSS.Notebook.plot(process.getTime(time_series=True), ...
IPlotBegin ==
    /\ script = "interactive"
    /\ pc = "session"
    /\ proc \in {"running", "finished", "killed"}
    /\ polled' = getTime(records)
    /\ pc' = "plotting"
    /\ UNCHANGED <<nodeVars, gui, system, protocol, autostart, procVars,
                   trajResult, trajFrames, args, config, outputs, filesWritten,
                   trace, argOp, records, plot>>

\* The plot cell, second getter and the plot:
\* ... process.getTemperature(time_series=True)) for plot1,
\* ... process.getTotalEnergy(time_series=True)) for plot2
IPlotEnd ==
    /\ script = "interactive"
    /\ pc = "plotting"
    /\ \/ plot' = [made |-> TRUE, quantity |-> "temperature", x |-> polled,
                   y |-> getTemperature(records)]
       \/ plot' = [made |-> TRUE, quantity |-> "energy", x |-> polled,
                   y |-> getTotalEnergy(records)]
    /\ polled' = <<>>
    /\ pc' = "session"
    /\ UNCHANGED <<nodeVars, gui, system, protocol, autostart, procVars,
                   trajResult, trajFrames, args, config, outputs, filesWritten,
                   trace, argOp, records>>

\* Faulty variant of ISetConfig: the configuration is written through to the
\* protocol the process was built from.
ConfigIntoProtocol ==
    /\ script = "interactive"
    /\ pc = "session"
    /\ config' = MyConfig
    /\ protocol' = [protocol EXCEPT !.kind = "custom", !.runtime = 0]
    /\ UNCHANGED <<nodeVars, pc, gui, system, autostart, procVars, trajResult,
                   trajFrames, args, outputs, filesWritten, trace, argOp, plotVars>>

\* process.setConfig(my_config)
ISetConfig ==
    /\ script = "interactive"
    /\ pc = "session"
    /\ config' = MyConfig
    /\ UNCHANGED <<nodeVars, pc, gui, system, protocol, autostart, procVars,
                   trajResult, trajFrames, args, outputs, filesWritten, trace>>
    /\ UNCHANGED argOp
    /\ UNCHANGED plotVars

\* process.addToConfig(my_config)
IAddToConfig ==
    /\ script = "interactive"
    /\ pc = "session"
    /\ Len(config) + Len(MyConfig) <= MaxConfig
    /\ config' = config \o MyConfig
    /\ UNCHANGED <<nodeVars, pc, gui, system, protocol, autostart, procVars,
                   trajResult, trajFrames, args, outputs, filesWritten, trace>>
    /\ UNCHANGED argOp
    /\ UNCHANGED plotVars

\* process.start()
IStart ==
    /\ script = "interactive"
    /\ pc = "session"
    /\ proc \in {"created", "finished", "killed"}
    /\ starts < MaxStarts
    /\ proc' = "running"
    /\ starts' = starts + 1
    /\ frames' = 0
    /\ trajWriting' = FALSE
    /\ UNCHANGED <<nodeVars, pc, gui, system, protocol, autostart, trajResult,
                   trajFrames, args, config, outputs, filesWritten, trace>>
    /\ UNCHANGED argOp
    /\ records' = <<>>
    /\ UNCHANGED <<polled, plot>>

\* process.kill()
IKill ==
    /\ script = "interactive"
    /\ pc = "session"
    /\ proc = "running"
    /\ proc' = kill(proc)
    /\ trajWriting' = FALSE
    /\ UNCHANGED <<nodeVars, pc, gui, system, protocol, autostart, starts, frames,
                   trajResult, trajFrames, args, config, outputs, filesWritten,
                   trace>>
    /\ UNCHANGED argOp
    /\ UNCHANGED plotVars

\* traj = process.getTrajectory()
IGetTrajectory ==
    /\ script = "interactive"
    /\ pc = "session"
    /\ proc \in {"running", "finished", "killed"}
    /\ \E r \in TrajectoryOutcomes :
          /\ trajResult' = r
          /\ trajFrames' = IF r = "ok" THEN frames ELSE trajFrames
    /\ UNCHANGED <<nodeVars, pc, gui, system, protocol, autostart, procVars, args,
                   config, outputs, filesWritten, trace>>
    /\ UNCHANGED argOp
    /\ UNCHANGED plotVars

\* BSS.IO.saveMolecules("equilibrated", process.getSystem(block=True),
\*     system.fileFormat()); rmsd = process.getTrajectory().RMSD(...);
\* write rmsd.txt
ISave ==
    /\ script = "interactive"
    /\ pc = "session"
    /\ SystemAvailable(TRUE)
    /\ \E r \in TrajectoryOutcomes :
          /\ trajResult' = r
          /\ trajFrames' = IF r = "ok" THEN frames ELSE trajFrames
          /\ filesWritten' = filesWritten
                 \cup {[name |-> "equilibrated", format |-> fileFormat(system)]}
                 \cup (IF r = "ok" THEN {[name |-> "rmsd.txt", format |-> {"TXT"}]}
                       ELSE {})
    /\ UNCHANGED <<nodeVars, pc, gui, system, protocol, autostart, procVars, args,
                   config, outputs, trace>>
    /\ UNCHANGED argOp
    /\ UNCHANGED plotVars

----------------------------------------------------------------------------

Next ==
    \/ ShowControls
    \/ ReadMolecules
    \/ BuildProtocol
    \/ RunProcess
    \/ SaveSystem
    \/ WriteRMSD
    \/ ValidateNode
    \/ ILoad
    \/ IDefine
    \/ ICreate
    \/ ISetArg
    \/ IResetArgs
    \/ ISetConfig
    \/ IAddToConfig
    \/ IStart
    \/ IKill
    \/ IGetTrajectory
    \/ ISave
    \/ ProcRecord
    \/ ProcWriteBegin
    \/ ProcWriteEnd
    \/ ProcFinish

Spec == Init /\ [][Next]_vars

\* The operations on the argument dictionary of a process that was created
\* but not started.
ArgsNext ==
    \/ ILoad
    \/ IDefine
    \/ ICreate
    \/ ISetArg
    \/ ISetArgs
    \/ IAddArgs
    \/ IInsertArgs
    \/ IDeleteArg
    \/ IClearArgs
    \/ IResetArgs

ArgsSpec == InitInteractive /\ [][ArgsNext]_vars

\* The interactive session once the process is configured: the process
\* writes records while the cells of the notebook start, poll, plot and kill.
SessionNext ==
    \/ ProcRecord
    \/ ProcWriteBegin
    \/ ProcWriteEnd
    \/ ProcFinish
    \/ ILoad
    \/ IDefine
    \/ ICreate
    \/ IStart
    \/ IKill
    \/ IGetTrajectory
    \/ ISave
    \/ IPlotBegin
    \/ IPlotEnd

SessionSpec == InitInteractive /\ [][SessionNext]_vars

\* The external process keeps running once started, and the user of the
\* notebook tries getTrajectory again after an error.
LiveSpec == Spec /\ WF_vars(ProcWriteEnd) /\ WF_vars(IGetTrajectory)

----------------------------------------------------------------------------
(* Properties. *)

\* The names of the files written so far.
WrittenNames == {f.name : f \in filesWritten}

C2_DefaultsAndSuppliedValues ==
    /\ (script = "minimisation" /\ protocol # NoProtocol)
        => protocol.steps = (IF "steps" \in supplied THEN argv.steps ELSE DefaultSteps)
    /\ (script = "equilibration" /\ protocol # NoProtocol)
        => /\ protocol.runtime =
                (IF "runtime" \in supplied THEN argv.runtime ELSE DefaultRuntime)
           /\ protocol.temperature_start =
                (IF "temperature_start" \in supplied THEN argv.temperature_start
                 ELSE DefaultTemperatureStart)
           /\ protocol.temperature_end =
                (IF "temperature_end" \in supplied THEN argv.temperature_end
                 ELSE DefaultTemperatureEnd)
           /\ protocol.restrain_backbone =
                (IF "restrain_backbone" \in supplied THEN argv.restrain_backbone
                 ELSE FALSE)

\* A protocol built from a mix of omitted and supplied optional inputs.
C2_Witness ==
    /\ script = "equilibration"
    /\ protocol # NoProtocol
    /\ "runtime" \notin supplied
    /\ "temperature_start" \notin supplied
    /\ "temperature_end" \in supplied
    /\ "restrain_backbone" \in supplied
    /\ argv.restrain_backbone

\* A supplied bounded input lies outside its declared minimum and maximum.
OutOfBounds ==
    \/ ("runtime" \in supplied
        /\ (argv.runtime < MinRuntime \/ argv.runtime > MaxRuntime))
    \/ ("temperature_start" \in supplied
        /\ (argv.temperature_start < MinTemperature
            \/ argv.temperature_start > MaxTemperature))
    \/ ("temperature_end" \in supplied
        /\ (argv.temperature_end < MinTemperature
            \/ argv.temperature_end > MaxTemperature))

\* C3: whenever the equilibration node has constructed its protocol, runtime
\* is within [0, 10] ns and both temperatures within [0, 1000] K; a run given
\* a value outside its declared bounds constructs no protocol and starts no
\* process.
C3_InputsWithinBounds ==
    script = "equilibration"
    => /\ protocol # NoProtocol
            => /\ MinRuntime <= protocol.runtime /\ protocol.runtime <= MaxRuntime
               /\ MinTemperature <= protocol.temperature_start
               /\ protocol.temperature_start <= MaxTemperature
               /\ MinTemperature <= protocol.temperature_end
               /\ protocol.temperature_end <= MaxTemperature
       /\ OutOfBounds
            => /\ protocol = NoProtocol
               /\ proc = "none"
               /\ pc \in {"controls", "read", "error", "reported"}

\* A run rejected only because its runtime exceeds the declared maximum.
C3_Witness ==
    /\ script = "equilibration"
    /\ flag = "none"
    /\ pc = "error"
    /\ {"files", "residue", "runtime"} \subseteq supplied
    /\ argv.runtime > MaxRuntime
    /\ "temperature_start" \notin supplied
    /\ "temperature_end" \notin supplied

\* C4: the equilibration node reaches node.validate() only with both declared
\* outputs (equilibrated, rmsd) set, and a node validates successfully only
\* with every declared output set.
C4_ValidateAfterOutputs ==
    /\ (script = "equilibration" /\ pc \in {"validate", "validated"})
        => {"equilibrated", "rmsd"} \subseteq outputs
    /\ (script = "minimisation" /\ pc = "validated") => "minimised" \in outputs

\* The equilibration node validated.
C4_Witness ==
    /\ script = "equilibration"
    /\ pc = "validated"
    /\ outputs = {"equilibrated", "rmsd"}

\* C5: the equilibrated system is saved only when the process has finished,
\* rmsd.txt is written only when the process is not running, and the node's
\* RMSD cell is reached only with the process finished.
C5_BlockUntilFinished ==
    /\ [](pc = "rmsd" => proc = "finished")
    /\ [][/\ ("equilibrated" \in WrittenNames' /\ "equilibrated" \notin WrittenNames)
               => (proc = "finished" /\ proc' = "finished")
          /\ ("rmsd.txt" \in WrittenNames' /\ "rmsd.txt" \notin WrittenNames)
               => (proc # "running" /\ proc' # "running")]_vars

\* The node has saved the system and written the RMSD of a finished process.
C5_Witness ==
    /\ script = "equilibration"
    /\ {"equilibrated", "rmsd.txt"} \subseteq WrittenNames
    /\ proc = "finished"
    /\ frames = MaxFrames

\* C6: BSS.MD.run leaves the process created but not running when
\* autostart=False and running when the keyword is omitted; a created process
\* becomes running only by a call of start(), and a process runs without any
\* start() call only when it was autostarted.
C6_Autostart ==
    [][/\ (proc = "none" /\ proc' # "none")
            => proc' = (IF autostart' THEN "running" ELSE "created")
       /\ proc = "created"
            => (proc' = "created" \/ (proc' = "running" /\ starts' = starts + 1))
       /\ (proc # "running" /\ proc' = "running" /\ starts' = starts)
            => (proc = "none" /\ autostart')]_vars

\* A process created with autostart=False whose arguments and configuration
\* were changed before any start().
C6_Witness ==
    /\ script = "interactive"
    /\ ~autostart
    /\ proc = "created"
    /\ starts = 0
    /\ args # DefaultArgs
    /\ config # DefaultConfig

C8_InputsValid ==
    /\ {"files", "residue"} \subseteq supplied
    /\ fileSet # {}
    /\ ~OutOfBounds

C9_ReservedFlagsOnlyReport ==
    flag \in {"help", "output"}
    => /\ pc \in {"controls", "read", "reported"}
       /\ system = NoSystem
       /\ protocol = NoProtocol
       /\ proc = "none"
       /\ filesWritten = {}
       /\ outputs = {}

\* --output answered although the required files input is missing.
C9_Witness ==
    /\ flag = "output"
    /\ pc = "reported"
    /\ "files" \notin supplied

C11_OutputFormatMatchesInput ==
    \A f \in filesWritten :
        f.name \in {"minimised", "equilibrated"}
        => /\ system # NoSystem
           /\ f.format = readMolecules(system.files).format
           /\ f.format = {FormatOf(x) : x \in fileSet}

\* An equilibrated system saved by the node after reading a single file that
\* is not in an AMBER format.
C11_Witness ==
    /\ script = "equilibration"
    /\ [name |-> "equilibrated", format |-> {"PDB"}] \in filesWritten
    /\ "equilibrated" \in outputs

C13_SetArgAddsOrOverwrites ==
    [][(argOp'.op = "setArg" /\ <<args, argOp>>' # <<args, argOp>>)
       => LET a == argOp'.arg
              v == argOp'.value
          IN /\ Cardinality({i \in DOMAIN args' : args'[i].arg = a}) = 1
             /\ \A i \in DOMAIN args' : args'[i].arg = a => args'[i].value = v
             /\ Without(args', a) = Without(args, a)
             /\ Len(args') = IF a \in Keys(args) THEN Len(args) ELSE Len(args) + 1]_vars

\* The value of -O overwritten in a dictionary that also holds an added
\* argument.
C13_Witness ==
    /\ argOp = [op |-> "setArg", arg |-> "-O", value |-> "False", changed |-> TRUE]
    /\ "-x" \in Keys(args)
    /\ Len(args) = 3

Extends(early, late) ==
    /\ Len(early) <= Len(late)
    /\ SubSeq(late, 1, Len(early)) = early

\* The i-th record of a run, as the getter of a plotted quantity returns it.
RecordValue(q, i) ==
    IF q = "temperature" THEN NextRecord(i - 1).temperature
    ELSE NextRecord(i - 1).energy

\* C16 as stated: the two series handed to BSS.Notebook.plot have the same
\* number of records, and a series polled later extends the one polled
\* earlier.
C16_SameNumberOfRecords ==
    /\ plot.made => Len(plot.x) = Len(plot.y)
    /\ pc = "plotting" => Extends(polled, getTime(records))

\* C16, amended: the series polled second has at least as many records as the
\* series polled first and holds, for each time of the first, the value of the
\* same record; a series polled later extends the one polled earlier.
C16_LaterSeriesExtendsEarlier ==
    /\ plot.made
       => /\ Len(plot.x) <= Len(plot.y)
          /\ \A i \in DOMAIN plot.x : plot.x[i] = NextRecord(i - 1).time
          /\ \A i \in DOMAIN plot.y : plot.y[i] = RecordValue(plot.quantity, i)
    /\ pc = "plotting" => Extends(polled, getTime(records))

\* A plot made from a running process that wrote a record between the two
\* getter calls.
C16_Witness ==
    /\ plot.made
    /\ proc = "running"
    /\ Len(plot.x) >= 1
    /\ Len(plot.x) < Len(plot.y)

====
